---- MODULE Spec2Model ----
(***************************************************************************)
(* Model of the tax computation engine of tax_return_app                   *)
(* (src/calculators.py over the data model of src/models.py).              *)
(*                                                                         *)
(* Currency values are Python floats in the source.  Transaction amounts   *)
(* and deduction inputs are whole yen; the source multiplies them by       *)
(* decimal rates (0.55, 0.4, 0.3, 0.2, 0.1, 0.5, 0.25, 0.05, ...), so the  *)
(* intermediate values are decimal fractions of a yen.  A value is kept    *)
(* here exactly, as a record [w, f] standing for w + f/Scale with          *)
(* 0 <= f < Scale: every unfloored value the engine computes from whole    *)
(* inputs is a multiple of 1/Scale, and math.floor is taken exactly.       *)
(* (Binary rounding error of the floats, of the order of 1e-10 yen, is     *)
(* not represented.)                                                       *)
(***************************************************************************)
EXTENDS Integers, Sequences, FiniteSets, TLC

VARIABLES tax_data, result, pc, arg, ret, assets

vars == <<tax_data, result, pc, arg, ret, assets>>

----------------------------------------------------------------------------
(* Exact decimal arithmetic                                                *)

\* 1/400 yen: salary deduction rates give twentieths, the medical
\* threshold (total_income * 0.05) four-hundredths, a quarter of a tax
\* fourths.
Scale == 4 * 100

M(n) == [w |-> n, f |-> 0]

MNorm(w, u) == [w |-> w + (u \div Scale), f |-> u % Scale]

MAdd(a, b) == MNorm(a.w + b.w, a.f + b.f)

MSub(a, b) == MNorm(a.w - b.w, a.f - b.f)

MLe(a, b) == a.w < b.w \/ (a.w = b.w /\ a.f <= b.f)

MLt(a, b) == a.w < b.w \/ (a.w = b.w /\ a.f < b.f)

MMax(a, b) == IF MLe(a, b) THEN b ELSE a

MMin(a, b) == IF MLe(a, b) THEN a ELSE b

\* math.floor
MFloor(a) == M(a.w)

\* a * (n / d), to the 1/Scale grid (rounded down), computed without
\* leaving 32 bits: a.w = q*d + r.
MMulRate(a, n, d) ==
    LET q == a.w \div d
        r == a.w % d
        u == (r * n * Scale + a.f * n) \div d
    IN  [w |-> q * n + (u \div Scale), f |-> u % Scale]

\* TRUE when a * (n / d) is a multiple of 1/Scale, i.e. MMulRate is exact.
MMulExact(a, n, d) == ((a.w % d) * n * Scale + a.f * n) % d = 0

IsMoney(a) == a.w \in Int /\ a.f \in 0..(Scale - 1)

----------------------------------------------------------------------------
(* Data model (src/models.py)                                              *)

\* TransactionType
INCOME == "INCOME"

EXPENSE == "EXPENSE"

TransactionType == {INCOME, EXPENSE}

\* Transaction.category is a string; these are the enumerations' values.
IncomeCategory ==
    {"Salary", "Business", "Rental", "Dividend", "Interest", "CapitalGain",
     "Pension", "IncomeOther"}

ExpenseCategory ==
    {"OfficeRent", "Utilities", "Communication", "Travel", "Entertainment",
     "Supplies", "Advertising", "Insurance", "Depreciation", "Outsourcing",
     "Training", "Medical", "Donation", "ExpenseOther"}

\* TaxSettings.filing_type
Blue == "Blue"

White == "White"

\* The two marker substrings a description is searched for.  A description
\* is modelled by the set of markers it contains.
WithholdingMarker == "withholding"

PrepaymentMarker == "prepayment"

\* Sum of the amounts of a list of transactions.
RECURSIVE SumAmount(_)
SumAmount(txs) ==
    IF txs = <<>> THEN 0 ELSE Head(txs).amount + SumAmount(Tail(txs))

get_transactions_by_type(txs, transaction_type) ==
    SelectSeq(txs, LAMBDA t : t.transaction_type = transaction_type)

\* Mutation: the tax_related flag is not looked at.
by_category_ignoring_tax_related(txs, transaction_type) ==
    LET typed == get_transactions_by_type(txs, transaction_type)
        cats == {typed[i].category : i \in DOMAIN typed}
    IN  [c \in cats |->
            SumAmount(SelectSeq(typed, LAMBDA t : t.category = c))]

\* get_income_by_category / get_expense_by_category: category -> total of
\* the tax-related transactions of that type; a category is a key only if
\* a tax-related transaction carries it.
by_category(txs, transaction_type) ==
    LET typed == get_transactions_by_type(txs, transaction_type)
        rel   == SelectSeq(typed, LAMBDA t : t.tax_related)
        cats  == {rel[i].category : i \in DOMAIN rel}
    IN  [c \in cats |->
            SumAmount(SelectSeq(rel, LAMBDA t : t.category = c))]

get_income_by_category(txs) == by_category(txs, INCOME)

get_expense_by_category(txs) == by_category(txs, EXPENSE)

calculate_total_expense(txs) ==
    SumAmount(SelectSeq(get_transactions_by_type(txs, EXPENSE),
                        LAMBDA t : t.tax_related))

\* The element of a one-element set: a value computed once and named.
Only(S) == CHOOSE x \in S : TRUE

\* dict.get(key, default)
Get(d, k, default) == IF k \in DOMAIN d THEN d[k] ELSE default

\* Sum of d.get(c, 0) over a set of categories.
RECURSIVE SumOver(_, _)
SumOver(d, cats) ==
    IF cats = {} THEN 0
    ELSE LET c == CHOOSE x \in cats : TRUE
         IN  Get(d, c, 0) + SumOver(d, cats \ {c})

----------------------------------------------------------------------------
(* IncomeCalculator (src/calculators.py)                                   *)

\* float('inf'): no value of the model exceeds it.
Infinity == 2147483647

\* First row of a (threshold, rate, fixed) table whose threshold is >= v.
\* Every table ends with an Infinity row.
RECURSIVE FirstBracket(_, _)
FirstBracket(table, v) ==
    IF MLe(v, M(Head(table)[1])) THEN Head(table)
    ELSE FirstBracket(Tail(table), v)

\* (threshold, rate in percent, fixed)
salary_deduction_rates ==
    << <<1625000, 55, 0>>, <<1800000, 40, 427500>>, <<3600000, 30, 636000>>,
       <<6600000, 20, 1536000>>, <<8500000, 10, 2196000>>,
       <<Infinity, 0, 2955000>> >>

\* Mutation: the third band carries the fixed amount of the fourth.
salary_deduction_wrong_band(salary_income) ==
    IF salary_income <= 650000 THEN M(salary_income)
    ELSE IF salary_income <= 1625000 THEN MMulRate(M(salary_income), 55, 100)
    ELSE IF salary_income <= 1800000
         THEN MAdd(MMulRate(M(salary_income), 40, 100), M(427500))
    ELSE IF salary_income <= 3600000
         THEN MAdd(MMulRate(M(salary_income), 30, 100), M(1536000))
    ELSE M(2955000)

calculate_salary_deduction(salary_income) ==
    IF salary_income <= 650000 THEN M(salary_income)
    ELSE IF salary_income <= 1625000 THEN MMulRate(M(salary_income), 55, 100)
    ELSE LET b == FirstBracket(salary_deduction_rates, M(salary_income))
         IN  MAdd(MMulRate(M(salary_income), b[2], 100), M(b[3]))

calculate_business_income(business_revenue, business_expenses, blue_return_deduction) ==
    LET net_income == business_revenue - business_expenses
    IN  IF net_income - blue_return_deduction > 0
        THEN net_income - blue_return_deduction ELSE 0

calculate_rental_income(rental_revenue, rental_expenses) ==
    IF rental_revenue - rental_expenses > 0
    THEN rental_revenue - rental_expenses ELSE 0

\* Lines 56-59: the Outsourcing total, plus the total of every expense
\* category other than Medical and Donation (Outsourcing among them).
business_expenses_of(expense_by_category) ==
    Get(expense_by_category, "Outsourcing", 0)
    + SumOver(expense_by_category, ExpenseCategory \ {"Medical", "Donation"})

\* The body of calculate_total_income (lines 39-81) over the two category
\* maps it reads first.
income_breakdown_of(income_by_category, expense_by_category, filing_type) ==
    LET has(c) == c \in DOMAIN income_by_category
        amount(c) == income_by_category[c]
        blue_deduction == IF filing_type = Blue THEN 650000 ELSE 0
        rental_expenses ==
            Get(expense_by_category, "OfficeRent", 0)
            + Get(expense_by_category, "Utilities", 0)
            + Get(expense_by_category, "Depreciation", 0)
        pass(c) == IF has(c) THEN M(amount(c)) ELSE M(0)
    IN  [salary_income   |->
             IF has("Salary")
             THEN MMax(M(0), MSub(M(amount("Salary")),
                                  calculate_salary_deduction(amount("Salary"))))
             ELSE M(0),
         business_income |->
             IF has("Business")
             THEN M(calculate_business_income(amount("Business"),
                      business_expenses_of(expense_by_category),
                      blue_deduction))
             ELSE M(0),
         rental_income   |->
             IF has("Rental")
             THEN M(calculate_rental_income(amount("Rental"), rental_expenses))
             ELSE M(0),
         dividend_income |-> pass("Dividend"),
         interest_income |-> pass("Interest"),
         capital_gain    |-> pass("CapitalGain"),
         pension_income  |-> pass("Pension"),
         other_income    |-> pass("IncomeOther")]

\* Line 80: total_income is the sum of the eight category fields.
with_total_income(r) ==
    [total_income |->
         MAdd(r.salary_income, MAdd(r.business_income,
         MAdd(r.rental_income, MAdd(r.dividend_income,
         MAdd(r.interest_income, MAdd(r.capital_gain,
         MAdd(r.pension_income, r.other_income)))))))] @@ r

calculate_total_income(data) ==
    Only({with_total_income(r) :
            r \in {income_breakdown_of(
                       get_income_by_category(data.transactions),
                       get_expense_by_category(data.transactions),
                       data.tax_settings.filing_type)}})

----------------------------------------------------------------------------
(* DeductionCalculator (src/calculators.py)                                *)

basic_deduction_amount == 480000

spouse_deduction_amount == 380000

dependent_deduction_amount == 380000

calculate_basic_deduction(total_income) ==
    IF MLe(total_income, M(24000000)) THEN M(basic_deduction_amount)
    ELSE IF MLe(total_income, M(24500000)) THEN M(320000)
    ELSE IF MLe(total_income, M(25000000)) THEN M(160000)
    ELSE M(0)

\* Mutation: a spouse income above 480,000 reduces the base amount by the
\* excess instead of cancelling the deduction.
spouse_deduction_phased_out(spouse_income, total_income) ==
    IF MLt(M(10000000), total_income) THEN M(0)
    ELSE LET base_amount ==
                 IF MLe(total_income, M(9000000)) THEN spouse_deduction_amount
                 ELSE IF MLe(total_income, M(9500000)) THEN 260000
                 ELSE 130000
         IN  IF spouse_income <= 480000 THEN M(base_amount)
             ELSE IF base_amount - (spouse_income - 480000) > 0
                  THEN M(base_amount - (spouse_income - 480000))
                  ELSE M(0)

calculate_spouse_deduction(spouse_income, total_income) ==
    IF spouse_income > 480000 \/ MLt(M(10000000), total_income) THEN M(0)
    ELSE LET base_amount ==
                 IF MLe(total_income, M(9000000)) THEN spouse_deduction_amount
                 ELSE IF MLe(total_income, M(9500000)) THEN 260000
                 ELSE 130000
         IN  IF spouse_income <= 480000 THEN M(base_amount)
             ELSE IF base_amount - (spouse_income - 480000) > 0
                  THEN M(base_amount - (spouse_income - 480000))
                  ELSE M(0)

\* Mutation: the 630,000 band starts above 19.
RECURSIVE dependent_deduction_band_above_19(_)
dependent_deduction_band_above_19(dependents) ==
    IF dependents = <<>> THEN 0
    ELSE LET age == Head(dependents)
         IN  (IF age >= 70 THEN 580000
              ELSE IF age > 19 /\ age <= 22 THEN 630000
              ELSE dependent_deduction_amount)
             + dependent_deduction_band_above_19(Tail(dependents))

\* dependents: the list of the dependents' ages
RECURSIVE calculate_dependent_deduction(_)
calculate_dependent_deduction(dependents) ==
    IF dependents = <<>> THEN 0
    ELSE LET age == Head(dependents)
         IN  (IF age >= 70 THEN 580000
              ELSE IF age >= 19 /\ age <= 22 THEN 630000
              ELSE dependent_deduction_amount)
             + calculate_dependent_deduction(Tail(dependents))

calculate_social_insurance_deduction(premium) == M(premium)

\* Mutation: the third tier adds the fixed amount of the second.
life_insurance_deduction_wrong_tier(premium) ==
    IF premium <= 20000 THEN M(premium)
    ELSE IF premium <= 40000
         THEN MAdd(MMulRate(M(premium), 50, 100), M(10000))
    ELSE IF premium <= 80000
         THEN MAdd(MMulRate(M(premium), 25, 100), M(10000))
    ELSE M(40000)

calculate_life_insurance_deduction(premium) ==
    IF premium <= 20000 THEN M(premium)
    ELSE IF premium <= 40000
         THEN MAdd(MMulRate(M(premium), 50, 100), M(10000))
    ELSE IF premium <= 80000
         THEN MAdd(MMulRate(M(premium), 25, 100), M(20000))
    ELSE M(40000)

calculate_earthquake_insurance_deduction(premium) ==
    IF premium <= 50000 THEN M(premium) ELSE M(50000)

calculate_donation_deduction(donation, total_income) ==
    IF donation - 2000 > 0 THEN M(donation - 2000) ELSE M(0)

\* Mutation: the threshold is the larger of the two amounts.
medical_deduction_max_threshold(medical_expense, total_income) ==
    LET threshold == MMax(MMulRate(total_income, 5, 100), M(100000))
    IN  MMax(M(0), MSub(M(medical_expense), threshold))

calculate_medical_deduction(medical_expense, total_income) ==
    LET threshold == MMin(MMulRate(total_income, 5, 100), M(100000))
    IN  MMax(M(0), MSub(M(medical_expense), threshold))

\* Lines 172-197: the nine fields of the deduction breakdown.
deduction_fields(data, total_income) ==
    [basic_deduction                |->
         IF data.deductions.basic_deduction
         THEN calculate_basic_deduction(total_income) ELSE M(0),
     spouse_deduction               |->
         IF data.deductions.spouse_deduction
         THEN calculate_spouse_deduction(data.personal_info.spouse_income,
                                         total_income)
         ELSE M(0),
     dependent_deduction            |->
         M(calculate_dependent_deduction(data.personal_info.dependents)),
     social_insurance_deduction     |->
         calculate_social_insurance_deduction(
             data.deductions.social_insurance_premium),
     life_insurance_deduction       |->
         calculate_life_insurance_deduction(
             data.deductions.life_insurance_premium),
     earthquake_insurance_deduction |->
         calculate_earthquake_insurance_deduction(
             data.deductions.earthquake_insurance_premium),
     donation_deduction             |->
         calculate_donation_deduction(data.deductions.donation, total_income),
     medical_deduction              |->
         calculate_medical_deduction(data.deductions.medical_expense,
                                     total_income),
     home_loan_deduction            |-> M(data.deductions.home_loan_deduction)]

\* Line 199. Mutation: home_loan_deduction is summed with the others.
with_total_deductions_and_home_loan(r) ==
    [total_deductions |->
         MAdd(r.basic_deduction, MAdd(r.spouse_deduction,
         MAdd(r.dependent_deduction, MAdd(r.social_insurance_deduction,
         MAdd(r.life_insurance_deduction,
         MAdd(r.earthquake_insurance_deduction,
         MAdd(r.donation_deduction, MAdd(r.medical_deduction,
         r.home_loan_deduction))))))))] @@ r

\* Line 199: the sum of every field but home_loan_deduction.
with_total_deductions(r) ==
    [total_deductions |->
         MAdd(r.basic_deduction, MAdd(r.spouse_deduction,
         MAdd(r.dependent_deduction, MAdd(r.social_insurance_deduction,
         MAdd(r.life_insurance_deduction,
         MAdd(r.earthquake_insurance_deduction,
         MAdd(r.donation_deduction, r.medical_deduction)))))))] @@ r

calculate_total_deductions(data, total_income) ==
    Only({with_total_deductions(r) :
            r \in {deduction_fields(data, total_income)}})

----------------------------------------------------------------------------
(* TaxCalculator (src/calculators.py)                                      *)

\* Mutation: the second bracket subtracts 100,000 more.
income_tax_brackets_with_a_step ==
    << <<1950000, 5, 0>>, <<3300000, 10, 197500>>, <<6950000, 20, 427500>>,
       <<9000000, 23, 636000>>, <<18000000, 33, 1536000>>,
       <<40000000, 40, 2796000>>, <<Infinity, 45, 4796000>> >>

\* (threshold, rate in percent, deduction)
income_tax_brackets ==
    << <<1950000, 5, 0>>, <<3300000, 10, 97500>>, <<6950000, 20, 427500>>,
       <<9000000, 23, 636000>>, <<18000000, 33, 1536000>>,
       <<40000000, 40, 2796000>>, <<Infinity, 45, 4796000>> >>

\* Mutation: the result is not floored to whole yen.
income_tax_unfloored(taxable_income) ==
    IF MLe(taxable_income, M(0)) THEN M(0)
    ELSE LET b == FirstBracket(income_tax_brackets, taxable_income)
         IN  MMax(M(0), MSub(MMulRate(taxable_income, b[2], 100), M(b[3])))

calculate_income_tax(taxable_income) ==
    IF MLe(taxable_income, M(0)) THEN M(0)
    ELSE LET b == FirstBracket(income_tax_brackets, taxable_income)
         IN  MMax(M(0), MFloor(MSub(MMulRate(taxable_income, b[2], 100),
                                    M(b[3]))))

\* reconstruction_tax_rate = 0.021
calculate_reconstruction_tax(income_tax) ==
    MFloor(MMulRate(income_tax, 21, 1000))

\* resident_tax_rate = 0.10, per_capita_rate = 5000
calculate_resident_tax(taxable_income) ==
    IF MLe(taxable_income, M(0)) THEN M(0)
    ELSE MFloor(MAdd(MMulRate(taxable_income, 10, 100), M(5000)))

\* Mutation: the whole excess is taxed at 5 %.
business_tax_single_rate(business_income) ==
    IF MLe(business_income, M(2900000)) THEN M(0)
    ELSE MFloor(MMulRate(MSub(business_income, M(2900000)), 5, 100))

calculate_business_tax(business_income) ==
    IF MLe(business_income, M(2900000)) THEN M(0)
    ELSE LET taxable_business_income == MSub(business_income, M(2900000))
         IN  IF MLe(taxable_business_income, M(4000000))
             THEN MFloor(MMulRate(taxable_business_income, 5, 100))
             ELSE MFloor(MAdd(M(200000),
                     MMulRate(MSub(taxable_business_income, M(4000000)),
                              48, 1000)))

\* Mutation: a revenue of exactly 10,000,000 is taxed.
consumption_tax_from_threshold(business_revenue) ==
    IF business_revenue < 10000000 THEN M(0)
    ELSE MFloor(MMulRate(M(business_revenue), 10, 100))

calculate_consumption_tax(business_revenue) ==
    IF business_revenue <= 10000000 THEN M(0)
    ELSE MFloor(MMulRate(M(business_revenue), 10, 100))

\* Mutation: integer division, the quarters are whole yen.
quarterly_tax_floored(annual_tax) ==
    LET quarterly_amount == MFloor(MMulRate(annual_tax, 1, 4))
    IN  <<quarterly_amount, quarterly_amount, quarterly_amount,
          quarterly_amount>>

calculate_estimated_quarterly_tax(annual_tax) ==
    LET quarterly_amount == MMulRate(annual_tax, 1, 4)
    IN  <<quarterly_amount, quarterly_amount, quarterly_amount,
          quarterly_amount>>

\* Line 271. Mutation: the difference is not clamped at zero.
taxable_income_unclamped(total_income, total_deductions) ==
    MSub(total_income, total_deductions)

taxable_income_of(total_income, total_deductions) ==
    MMax(M(0), MSub(total_income, total_deductions))

\* Line 284. Mutation: the credit is not clamped at the income tax.
final_income_tax_unclamped(income_tax, home_loan_deduction) ==
    MSub(income_tax, home_loan_deduction)

final_income_tax_of(income_tax, home_loan_deduction) ==
    MMax(M(0), MSub(income_tax, home_loan_deduction))

\* Line 285. Mutation: the surtax is left out of the total.
final_total_tax_without_surtax(final_income_tax, reconstruction_tax, resident_tax, business_tax, consumption_tax) ==
    MAdd(final_income_tax, MAdd(resident_tax,
    MAdd(business_tax, consumption_tax)))

final_total_tax_of(final_income_tax, reconstruction_tax, resident_tax, business_tax, consumption_tax) ==
    MAdd(final_income_tax, MAdd(reconstruction_tax, MAdd(resident_tax,
    MAdd(business_tax, consumption_tax))))

\* Lines 287-291: the amounts of the Expense transactions whose description
\* contains the marker.  tax_related is not consulted.
marked_expense_total(txs, marker) ==
    SumAmount(SelectSeq(txs, LAMBDA t :
        marker \in t.description /\ t.transaction_type = EXPENSE))

\* Lines 295-300. Mutation: the refund is the unclamped difference.
settle_signed(final_total_tax, paid_tax) ==
    IF MLt(paid_tax, final_total_tax)
    THEN [tax_due |-> MSub(final_total_tax, paid_tax),
          refund_amount |-> MSub(paid_tax, final_total_tax)]
    ELSE [tax_due |-> M(0), refund_amount |-> MSub(paid_tax, final_total_tax)]

settle(final_total_tax, paid_tax) ==
    IF MLt(paid_tax, final_total_tax)
    THEN [tax_due |-> MSub(final_total_tax, paid_tax), refund_amount |-> M(0)]
    ELSE [tax_due |-> M(0), refund_amount |-> MSub(paid_tax, final_total_tax)]

\* Lines 271-324, over the two breakdowns computed in lines 265-269.
taxes_of(data, income_breakdown, deduction_breakdown) ==
    LET total_income == income_breakdown.total_income
        total_deductions == deduction_breakdown.total_deductions
        taxable_income == taxable_income_of(total_income, total_deductions)
        income_tax == calculate_income_tax(taxable_income)
        reconstruction_tax == calculate_reconstruction_tax(income_tax)
        resident_tax == calculate_resident_tax(taxable_income)
        business_tax ==
            calculate_business_tax(income_breakdown.business_income)
        business_revenue ==
            Get(get_income_by_category(data.transactions), "Business", 0)
        consumption_tax == calculate_consumption_tax(business_revenue)
        home_loan_deduction == deduction_breakdown.home_loan_deduction
        final_income_tax ==
            final_income_tax_of(income_tax, home_loan_deduction)
        final_total_tax ==
            final_total_tax_of(final_income_tax, reconstruction_tax,
                               resident_tax, business_tax, consumption_tax)
        withholding_tax ==
            M(marked_expense_total(data.transactions, WithholdingMarker))
        prepaid_tax ==
            M(marked_expense_total(data.transactions, PrepaymentMarker))
        paid_tax == MAdd(withholding_tax, prepaid_tax)
        total_expense == M(calculate_total_expense(data.transactions))
    IN  [total_income        |-> total_income,
         total_expense       |-> total_expense,
         net_income          |-> MSub(total_income, total_expense),
         total_deductions    |-> total_deductions,
         taxable_income      |-> taxable_income,
         income_tax          |-> final_income_tax,
         reconstruction_tax  |-> reconstruction_tax,
         resident_tax        |-> resident_tax,
         business_tax        |-> business_tax,
         consumption_tax     |-> consumption_tax,
         total_tax           |-> final_total_tax,
         withholding_tax     |-> withholding_tax,
         prepaid_tax         |-> prepaid_tax,
         home_loan_deduction_applied |-> home_loan_deduction,
         estimated_quarterly_tax     |->
             calculate_estimated_quarterly_tax(final_income_tax),
         income_breakdown    |-> income_breakdown,
         deduction_breakdown |-> deduction_breakdown]
        @@ settle(final_total_tax, paid_tax)

calculate_all_taxes(data) ==
    Only({Only({taxes_of(data, income_breakdown, deduction_breakdown) :
                  deduction_breakdown \in
                      {calculate_total_deductions(
                           data, income_breakdown.total_income)}}) :
            income_breakdown \in {calculate_total_income(data)}})

----------------------------------------------------------------------------
(* Inputs                                                                  *)

\* Largest number of transactions of an input return.
MaxTx == 2

Tx(transaction_type, category, amount, description, tax_related) ==
    [transaction_type |-> transaction_type, category |-> category,
     amount |-> amount, description |-> description,
     tax_related |-> tax_related]

\* The transactions an input return is made of.
TxPool ==
    << Tx(INCOME, "Salary", 3000000, {}, TRUE),
       Tx(INCOME, "Salary", 1900003, {}, TRUE),
       Tx(INCOME, "Salary", 650001, {}, TRUE),
       Tx(INCOME, "Salary", 2000000, {}, FALSE),
       Tx(INCOME, "Business", 5000000, {}, TRUE),
       Tx(INCOME, "Business", 12000000, {}, TRUE),
       Tx(INCOME, "Rental", 1000000, {}, TRUE),
       Tx(INCOME, "Dividend", 1158560, {WithholdingMarker}, TRUE),
       Tx(EXPENSE, "Outsourcing", 1000000, {}, TRUE),
       Tx(EXPENSE, "OfficeRent", 300000, {}, TRUE),
       Tx(EXPENSE, "Medical", 150000, {}, TRUE),
       Tx(EXPENSE, "ExpenseOther", 200000, {WithholdingMarker}, TRUE),
       Tx(EXPENSE, "ExpenseOther", 50000, {PrepaymentMarker}, TRUE),
       Tx(EXPENSE, "ExpenseOther", 30000,
          {WithholdingMarker, PrepaymentMarker}, TRUE),
       Tx(EXPENSE, "ExpenseOther", 200000, {WithholdingMarker}, FALSE) >>

\* Transaction lists of at most MaxTx pool entries, in pool order (the
\* engine only sums over the list); the id is the position in the list.
TxLists ==
    LET picks == UNION {[1..n -> DOMAIN TxPool] : n \in 0..MaxTx}
        sorted == {p \in picks :
                      \A i \in DOMAIN p : \A j \in DOMAIN p :
                          i < j => p[i] <= p[j]}
    IN  {[i \in DOMAIN p |->
             [id |-> i,
              transaction_type |-> TxPool[p[i]].transaction_type,
              category |-> TxPool[p[i]].category,
              amount |-> TxPool[p[i]].amount,
              description |-> TxPool[p[i]].description,
              tax_related |-> TxPool[p[i]].tax_related]] : p \in picks \cap sorted}

\* Deductions(): basic_deduction = True, everything else off or zero.
DefaultDeductions ==
    [basic_deduction |-> TRUE, spouse_deduction |-> FALSE,
     social_insurance_premium |-> 0, life_insurance_premium |-> 0,
     earthquake_insurance_premium |-> 0, donation |-> 0,
     medical_expense |-> 0, home_loan_deduction |-> 0]

HomeLoanInputs == {0, 30000, 500000}

\* PersonalInfo(): spouse_income = 0, no dependents.
DefaultPersonalInfo == [spouse_income |-> 0, dependents |-> <<>>]

\* The deduction inputs and the personal attributes of an input return:
\* the defaults, the basic deduction switched off, and a return that uses
\* every deduction, with a spouse below and above the income limit.
DeductionProfiles ==
    LET all == [DefaultDeductions EXCEPT !.spouse_deduction = TRUE,
                    !.social_insurance_premium = 400000,
                    !.life_insurance_premium = 30001,
                    !.earthquake_insurance_premium = 60000,
                    !.donation = 10000,
                    !.medical_expense = 150000]
        base ==
            {[deductions |-> DefaultDeductions,
              personal_info |-> DefaultPersonalInfo],
             [deductions |-> [DefaultDeductions EXCEPT !.basic_deduction = FALSE],
              personal_info |-> DefaultPersonalInfo],
             [deductions |-> all,
              personal_info |-> [spouse_income |-> 0, dependents |-> <<20, 70>>]],
             [deductions |-> all,
              personal_info |-> [spouse_income |-> 500000, dependents |-> <<10>>]]}
    IN  {[p EXCEPT !.deductions.home_loan_deduction = h] :
            p \in base, h \in HomeLoanInputs}

FilingTypes == {Blue, White}

\* TaxCalculationResult(): every amount 0, no quarterly instalments.
NewTaxCalculationResult ==
    [total_income |-> M(0), total_expense |-> M(0), net_income |-> M(0),
     total_deductions |-> M(0), taxable_income |-> M(0),
     income_tax |-> M(0), reconstruction_tax |-> M(0),
     resident_tax |-> M(0), business_tax |-> M(0),
     consumption_tax |-> M(0), total_tax |-> M(0),
     withholding_tax |-> M(0), prepaid_tax |-> M(0), tax_due |-> M(0),
     refund_amount |-> M(0), estimated_quarterly_tax |-> <<>>]

TaxReturnInputs ==
    {[transactions |-> txs,
      tax_settings |-> [filing_type |-> ft],
      deductions |-> p.deductions,
      personal_info |-> p.personal_info,
      calculation_result |-> NewTaxCalculationResult] :
        txs \in TxLists, ft \in FilingTypes, p \in DeductionProfiles}

\* TaxReturnData()
NewTaxReturnData ==
    [transactions |-> <<>>,
     tax_settings |-> [filing_type |-> Blue],
     deductions |-> DefaultDeductions,
     personal_info |-> DefaultPersonalInfo,
     calculation_result |-> NewTaxCalculationResult]

NoResult == <<>>

----------------------------------------------------------------------------
(* Specification: calculate_all_taxes applied to an input return           *)

Init ==
    /\ tax_data \in TaxReturnInputs
    /\ result = NoResult
    /\ pc = "inputs"
    /\ arg = M(0)
    /\ ret = M(0)
    /\ assets = <<>>

\* Mutation: the call consumes the transactions it has summed.
CalculateAllTaxesConsuming ==
    /\ pc \in {"inputs", "done"}
    /\ result' = calculate_all_taxes(tax_data)
    /\ tax_data' = [tax_data EXCEPT !.transactions = <<>>]
    /\ pc' = "done"
    /\ UNCHANGED <<arg, ret, assets>>

\* result = TaxCalculator().calculate_all_taxes(tax_data), for the first
\* time or again on the same object.  The function and the accessors it
\* calls assign to no attribute of tax_data.
CalculateAllTaxes ==
    /\ pc \in {"inputs", "done"}
    /\ result' = calculate_all_taxes(tax_data)
    /\ pc' = "done"
    /\ UNCHANGED <<tax_data, arg, ret, assets>>

Next == CalculateAllTaxes

Spec == Init /\ [][Next]_vars

----------------------------------------------------------------------------
(* Specification: calculate_all_taxes applied to a return with a single    *)
(* Salary transaction and the default deductions                           *)

\* Salaries at and one yen above the band thresholds, where the fifth band
\* reaches 2,955,000 (7,590,000), inside the fifth band and above it.
\* 1,625,000 itself is left out: 1625000 * 0.55 is not exact in binary
\* floating point, and the floor of the resident tax computed from it
\* falls one yen below the value of exact arithmetic.
SalaryBandEdges ==
    {0, 1, 650000, 650001, 1624999, 1625001, 6600000, 6600001, 7590000,
     7590001, 8000000, 8500000, 8500001, 10000000, 20000000}

SalaryInputs ==
    {1800000, 1800001, 3000000, 3600000, 3600001}
        \cup {1800000 + k * 12007 : k \in 1..149}
        \cup SalaryBandEdges


InitSalary ==
    /\ tax_data \in
           {[NewTaxReturnData EXCEPT !.transactions =
                <<[id |-> 1, transaction_type |-> INCOME,
                   category |-> "Salary", amount |-> s, description |-> {},
                   tax_related |-> TRUE]>>] : s \in SalaryInputs}
    /\ result = NoResult
    /\ pc = "inputs"
    /\ arg = M(0)
    /\ ret = M(0)
    /\ assets = <<>>

SpecSalary == InitSalary /\ [][Next]_vars

----------------------------------------------------------------------------
(* Specification: calculate_income_tax applied to a taxable income         *)

TaxableAnchors ==
    {0, 1000000, 1950000, 3300000, 5000000, 6950000, 9000000, 18000000,
     40000000, 47000000}

TaxableInputs ==
    {MNorm(a + d, f) : a \in TaxableAnchors, d \in {-1, 0, 1},
                       f \in {0, 1, Scale - 1}}

InitIncomeTax ==
    /\ tax_data = NewTaxReturnData
    /\ result = NoResult
    /\ pc = "inputs"
    /\ arg \in TaxableInputs
    /\ ret = M(0)
    /\ assets = <<>>

\* ret = TaxCalculator().calculate_income_tax(arg)
CalculateIncomeTax ==
    /\ pc = "inputs"
    /\ ret' = calculate_income_tax(arg)
    /\ pc' = "done"
    /\ UNCHANGED <<tax_data, result, arg, assets>>

NextIncomeTax == CalculateIncomeTax

SpecIncomeTax == InitIncomeTax /\ [][NextIncomeTax]_vars

----------------------------------------------------------------------------
(* Specification: calculate_all_taxes applied to a return that holds a     *)
(* transaction outside the engine's preconditions                          *)

\* An Income transaction of a category outside IncomeCategory, and
\* transactions with a negative amount.
InvalidTxPool ==
    << Tx(INCOME, "Crypto", 5000000, {}, TRUE),
       Tx(INCOME, "Salary", -3000000, {}, TRUE),
       Tx(INCOME, "Dividend", -100000, {}, TRUE),
       Tx(EXPENSE, "Outsourcing", -100000, {}, TRUE) >>

WithIds(txs) == [i \in DOMAIN txs |-> [id |-> i] @@ txs[i]]

\* At most one pool transaction followed by one invalid transaction.
InvalidInputs ==
    {[NewTaxReturnData EXCEPT
          !.transactions = WithIds(prefix \o <<InvalidTxPool[b]>>),
          !.tax_settings.filing_type = ft] :
        prefix \in {<<>>} \cup {<<TxPool[i]>> : i \in DOMAIN TxPool},
        b \in DOMAIN InvalidTxPool, ft \in FilingTypes}

InitInvalid ==
    /\ tax_data \in InvalidInputs
    /\ result = NoResult
    /\ pc = "inputs"
    /\ arg = M(0)
    /\ ret = M(0)
    /\ assets = <<>>

SpecInvalid == InitInvalid /\ [][Next]_vars

----------------------------------------------------------------------------
(* Specification: the application (src/main.py): transactions are added    *)
(* and the tax calculation is run from the form                            *)

\* TaxReturnData.add_transaction
add_transaction(data, transaction) ==
    [data EXCEPT !.transactions = Append(@, transaction)]

\* Mutation: the list is left as it is.
remove_transaction_keeping_all(data, transaction_id) == data

\* TaxReturnData.remove_transaction
remove_transaction(data, transaction_id) ==
    [data EXCEPT !.transactions =
         SelectSeq(@, LAMBDA t : t.id # transaction_id)]

\* The ids of a list of transactions.
Ids(txs) == {txs[i].id : i \in DOMAIN txs}

\* The values str(uuid.uuid4()) can take.
TransactionIds == 1..(MaxTx + 1)

\* TaxCalculationResult(**kwargs): the generated __init__ raises TypeError
\* on a keyword that is not a field of the dataclass.
TaxCalculationResultAccepts(kwargs) ==
    DOMAIN kwargs \subseteq DOMAIN NewTaxCalculationResult

\* TaxCalculationResult(**kwargs): the fields given, the defaults otherwise.
TaxCalculationResult(kwargs) == kwargs @@ NewTaxCalculationResult

\* What the form holds when the calculation is run: whether its numeric
\* fields parse, the filing type, the deduction inputs and the spouse's
\* income.
UiInputs ==
    [valid : BOOLEAN,
     filing_type : FilingTypes,
     deductions :
         {DefaultDeductions,
          [DefaultDeductions EXCEPT !.home_loan_deduction = 30000],
          [DefaultDeductions EXCEPT !.spouse_deduction = TRUE,
               !.life_insurance_premium = 30001,
               !.medical_expense = 150000]},
     spouse_income : {0, 500000}]

\* collect_data: personal_info, tax_settings and deductions are rebuilt
\* from the form (PersonalInfo without dependents); a field that does not
\* parse raises ValueError before any assignment, which is caught.
collect_data(data, ui) ==
    IF ui.valid
    THEN [data EXCEPT
              !.personal_info = [spouse_income |-> ui.spouse_income,
                                 dependents |-> <<>>],
              !.tax_settings = [filing_type |-> ui.filing_type],
              !.deductions = ui.deductions]
    ELSE data

\* main.py lines 718-719 and the except clause of line 727.
store_result(data, calc_result) ==
    IF TaxCalculationResultAccepts(calc_result)
    THEN [ok |-> TRUE,
          data |-> [data EXCEPT !.calculation_result =
                       TaxCalculationResult(calc_result)]]
    ELSE [ok |-> FALSE, data |-> data]

InitApp ==
    /\ tax_data = NewTaxReturnData
    /\ result = NoResult
    /\ pc = "inputs"
    /\ arg = M(0)
    /\ ret = M(0)
    /\ assets = <<>>

\* The transactions entered in the dialog: a salary, a business income,
\* an outsourcing expense and an expense marked as withholding.
AppTxPool == <<TxPool[1], TxPool[5], TxPool[9], TxPool[12]>>

\* TransactionManager.add_transaction with a confirmed dialog; the dialog
\* gives the new transaction an id that no transaction of the list has.
AddTransaction ==
    /\ Len(tax_data.transactions) < MaxTx
    /\ \E i \in DOMAIN AppTxPool :
         \E id \in TransactionIds \ Ids(tax_data.transactions) :
           tax_data' = add_transaction(tax_data, [id |-> id] @@ AppTxPool[i])
    /\ pc' = "inputs"
    /\ UNCHANGED <<result, arg, ret, assets>>

\* TransactionManager.edit_transaction on the selected row k with a
\* confirmed dialog: the dialog's result carries the id of the transaction
\* it was opened on.
EditTransaction ==
    /\ \E k \in DOMAIN tax_data.transactions :
         \E i \in DOMAIN AppTxPool :
           \E transaction_id \in {tax_data.transactions[k].id} :
             tax_data' = add_transaction(
                 remove_transaction(tax_data, transaction_id),
                 [id |-> transaction_id] @@ AppTxPool[i])
    /\ pc' = "inputs"
    /\ UNCHANGED <<result, arg, ret, assets>>

\* TransactionManager.delete_transaction on the selected row k, confirmed.
DeleteTransaction ==
    /\ \E k \in DOMAIN tax_data.transactions :
           tax_data' = remove_transaction(tax_data, tax_data.transactions[k].id)
    /\ pc' = "inputs"
    /\ UNCHANGED <<result, arg, ret, assets>>

\* calculate_taxes; result is its local calc_result, pc = "error" when the
\* except clause ran.
CalculateTaxes ==
    /\ \E ui \in UiInputs :
         \E collected \in {collect_data(tax_data, ui)} :
           \E calc_result \in {calculate_all_taxes(collected)} :
             \E stored \in {store_result(collected, calc_result)} :
               /\ result' = calc_result
               /\ tax_data' = stored.data
               /\ pc' = IF stored.ok THEN "done" ELSE "error"
    /\ UNCHANGED <<arg, ret, assets>>

NextApp == AddTransaction \/ CalculateTaxes

SpecApp == InitApp /\ [][NextApp]_vars

\* The transaction list alone: transactions are added, edited and deleted.
NextSession == AddTransaction \/ EditTransaction \/ DeleteTransaction

SpecSession == InitApp /\ [][NextSession]_vars

----------------------------------------------------------------------------
(* Specification: calculate_all_taxes applied to returns that exercise the *)
(* deduction rules, with a total income carried by a single transaction    *)

\* Largest number of dependents of an input return.
MaxDependents == 2

\* Total incomes around the breakpoints of the spouse deduction (9M, 9.5M,
\* 10M) and of the medical threshold (5 % reaches 100,000 at 2M).
IncomeAnchors ==
    {1, 1000000, 1999999, 2000000, 2000001, 5000000, 9000000, 9000001,
     9500000, 9500001, 10000000, 10000001, 24000000}

\* No income, a Dividend income (total_income is its amount), or a salary
\* whose income after the salary deduction is not a whole number.
IncomeCarriers ==
    {<<>>, <<Tx(INCOME, "Salary", 1900003, {}, TRUE)>>}
        \cup {<<Tx(INCOME, "Dividend", a, {}, TRUE)>> : a \in IncomeAnchors}

DependentAges == {0, 18, 19, 20, 22, 23, 69, 70}

DependentLists == UNION {[1..n -> DependentAges] : n \in 0..MaxDependents}

LifePremiums ==
    {0, 1, 19999, 20000, 20001, 30001, 39999, 40000, 40001, 40003, 60000,
     79999, 80000, 80001, 100000} \cup {k * 2503 : k \in 0..40}

MedicalExpenses == {0, 1, 34700, 34701, 50000, 100000, 100001, 150000}

DeductionReturn(txs, deductions, personal_info) ==
    [NewTaxReturnData EXCEPT !.transactions = WithIds(txs),
                             !.deductions = deductions,
                             !.personal_info = personal_info]

\* Every deduction in use.
AllDeductions ==
    [DefaultDeductions EXCEPT !.spouse_deduction = TRUE,
         !.social_insurance_premium = 400000,
         !.life_insurance_premium = 30001,
         !.earthquake_insurance_premium = 60000,
         !.donation = 10000,
         !.medical_expense = 150000]

DeductionInputs ==
    \* the spouse deduction: election, spouse income, total income
    {DeductionReturn(txs,
         [DefaultDeductions EXCEPT !.spouse_deduction = e],
         [DefaultPersonalInfo EXCEPT !.spouse_income = si]) :
        txs \in IncomeCarriers, e \in BOOLEAN,
        si \in {0, 480000, 480001, 500000}}
    \cup
    \* the dependents, under every combination of the election flags
    {DeductionReturn(<<Tx(INCOME, "Dividend", 5000000, {}, TRUE)>>,
         [DefaultDeductions EXCEPT !.basic_deduction = b,
                                   !.spouse_deduction = e],
         [DefaultPersonalInfo EXCEPT !.dependents = ds]) :
        b \in BOOLEAN, e \in BOOLEAN, ds \in DependentLists}
    \cup
    \* the life-insurance premium
    {DeductionReturn(<<Tx(INCOME, "Dividend", 5000000, {}, TRUE)>>,
         [DefaultDeductions EXCEPT !.life_insurance_premium = p],
         DefaultPersonalInfo) : p \in LifePremiums}
    \cup
    \* the medical expense against the total income
    {DeductionReturn(txs,
         [DefaultDeductions EXCEPT !.medical_expense = me],
         DefaultPersonalInfo) :
        txs \in IncomeCarriers, me \in MedicalExpenses}
    \cup
    \* every deduction at once, with and without a home-loan credit
    {DeductionReturn(txs,
         [AllDeductions EXCEPT !.home_loan_deduction = h],
         [spouse_income |-> 0, dependents |-> <<20, 70>>]) :
        txs \in IncomeCarriers, h \in HomeLoanInputs}

InitDeductions ==
    /\ tax_data \in DeductionInputs
    /\ result = NoResult
    /\ pc = "inputs"
    /\ arg = M(0)
    /\ ret = M(0)
    /\ assets = <<>>

SpecDeductions == InitDeductions /\ [][Next]_vars

----------------------------------------------------------------------------
(* Specification: calculate_all_taxes applied to returns with a business   *)
(* revenue, with and without expenses, under both filing types             *)

\* Revenues that put the business income (the revenue itself under White
\* filing without expenses, 650,000 less under Blue) at and around
\* 2,900,000 and 6,900,000, revenues around 10,000,000, and a grid.
BusinessRevenues ==
    {0, 1000000, 2900000, 2900001, 2900019, 2900020, 3550000, 3550001,
     5000000, 6900000, 6900001, 6900021, 7550000, 9999999, 10000000,
     10000001, 10000009, 10000010, 12000000, 20000000}
        \cup {2900000 + k * 130003 : k \in 1..60}

\* What accompanies the revenue: nothing, a business expense, an
\* outsourcing expense, a second revenue, a revenue that is not
\* tax-related, a rental revenue alone and with an expense.
BusinessCompanions ==
    {<<>>,
     <<Tx(EXPENSE, "Travel", 600000, {}, TRUE)>>,
     <<Tx(EXPENSE, "Outsourcing", 300000, {}, TRUE)>>,
     <<Tx(INCOME, "Business", 4000000, {}, TRUE)>>,
     <<Tx(INCOME, "Business", 6000000, {}, FALSE)>>,
     <<Tx(INCOME, "Rental", 1000000, {}, TRUE)>>,
     <<Tx(INCOME, "Rental", 1000000, {}, TRUE),
       Tx(EXPENSE, "Travel", 600000, {}, TRUE)>>,
     <<Tx(INCOME, "Rental", 1000000, {}, TRUE),
       Tx(EXPENSE, "OfficeRent", 300000, {}, TRUE)>>}

BusinessInputs ==
    {[NewTaxReturnData EXCEPT
          !.transactions =
              WithIds(<<Tx(INCOME, "Business", r, {}, TRUE)>> \o c),
          !.tax_settings.filing_type = ft] :
        r \in BusinessRevenues, c \in BusinessCompanions,
        ft \in FilingTypes}

InitBusiness ==
    /\ tax_data \in BusinessInputs
    /\ result = NoResult
    /\ pc = "inputs"
    /\ arg = M(0)
    /\ ret = M(0)
    /\ assets = <<>>

SpecBusiness == InitBusiness /\ [][Next]_vars

----------------------------------------------------------------------------
(* DepreciationCalculator (src/depreciation_calculator.py)                 *)

\* An asset is the dict add_asset builds, without the fields no
\* computation reads (category, depreciation_method, notes).  The id
\* "asset_<n>" is represented by the number n, and purchase_date by its
\* year and month (the day is never read).
add_asset(as, name, purchase_date, purchase_price, useful_life) ==
    Append(as, [id             |-> Len(as) + 1,
                name           |-> name,
                purchase_date  |-> purchase_date,
                purchase_price |-> purchase_price,
                useful_life    |-> useful_life,
                current_value  |-> purchase_price])

\* Straight-line depreciation of one asset for target_year.
calculate_depreciation(asset, target_year) ==
    LET purchase_year == asset.purchase_date.year
        months_used ==
            IF purchase_year = target_year
            THEN 13 - asset.purchase_date.month
            ELSE 12
        annual_depreciation ==
            MMulRate(M(asset.purchase_price), 1, asset.useful_life)
        monthly_depreciation == MMulRate(annual_depreciation, 1, 12)
        depreciation_amount == MMulRate(monthly_depreciation, months_used, 1)
        years_passed ==
            IF target_year - purchase_year > 0
            THEN target_year - purchase_year - 1
            ELSE target_year - purchase_year
        total_depreciation ==
            MAdd(MMulRate(annual_depreciation, years_passed, 1),
                 depreciation_amount)
    IN  [depreciation_amount |-> depreciation_amount,
         total_depreciation  |-> total_depreciation,
         current_value       |->
             MMax(M(0), MSub(M(asset.purchase_price), total_depreciation)),
         months_used         |-> months_used]

\* The year's condition of get_assets_for_year.
listed_in_year(asset, year) ==
    /\ asset.purchase_date.year <= year
    /\ year <= asset.purchase_date.year + asset.useful_life

\* asset.copy() updated with the depreciation of the year, for every asset
\* the year lists, in the order of the list.
RECURSIVE get_assets_for_year(_, _)
get_assets_for_year(as, year) ==
    IF as = <<>> THEN <<>>
    ELSE LET asset == Head(as)
             rest == get_assets_for_year(Tail(as), year)
         IN  IF listed_in_year(asset, year)
             THEN <<calculate_depreciation(asset, year) @@ asset>> \o rest
             ELSE rest

RECURSIVE SumDepreciation(_)
SumDepreciation(year_assets) ==
    IF year_assets = <<>> THEN M(0)
    ELSE MAdd(Head(year_assets).depreciation_amount,
              SumDepreciation(Tail(year_assets)))

get_total_depreciation_for_year(as, year) ==
    SumDepreciation(get_assets_for_year(as, year))

\* asset.update(kwargs) on the first asset of that id, then break.
update_asset(as, asset_id, kwargs) ==
    LET hits == {k \in DOMAIN as : as[k].id = asset_id}
    IN  IF hits = {} THEN as
        ELSE LET first == CHOOSE k \in hits : \A j \in hits : k <= j
             IN  [as EXCEPT ![first] = kwargs @@ as[first]]

delete_asset(as, asset_id) == SelectSeq(as, LAMBDA asset : asset.id # asset_id)

\* The asset register: assets are added, updated and deleted, and a year is
\* listed; prices are multiples of 12 * useful_life, so that every amount
\* is a whole number of yen in the code as well.
MaxAssets == 2

AssetInputs ==
    {[name |-> "A", purchase_date |-> [year |-> 2020, month |-> 1],
      purchase_price |-> 144000, useful_life |-> 4],
     [name |-> "B", purchase_date |-> [year |-> 2020, month |-> 7],
      purchase_price |-> 72000, useful_life |-> 3],
     [name |-> "C", purchase_date |-> [year |-> 2021, month |-> 12],
      purchase_price |-> 720000, useful_life |-> 5]}

AssetYears == 2019..2027

AssetUpdates == {[purchase_price |-> 360000]}

AssetIds(as) == {as[k].id : k \in DOMAIN as}

InitAssets ==
    /\ tax_data = NewTaxReturnData
    /\ result = <<>>
    /\ pc = "assets"
    /\ arg = 0
    /\ ret = M(0)
    /\ assets = <<>>

AddAsset ==
    /\ Len(assets) < MaxAssets
    /\ \E a \in AssetInputs :
         assets' = add_asset(assets, a.name, a.purchase_date,
                             a.purchase_price, a.useful_life)
    /\ pc' = "assets"
    /\ UNCHANGED <<tax_data, result, arg, ret>>

UpdateAsset ==
    /\ \E asset_id \in AssetIds(assets) :
         \E kwargs \in AssetUpdates :
           assets' = update_asset(assets, asset_id, kwargs)
    /\ pc' = "assets"
    /\ UNCHANGED <<tax_data, result, arg, ret>>

DeleteAsset ==
    /\ \E asset_id \in AssetIds(assets) :
         assets' = delete_asset(assets, asset_id)
    /\ pc' = "assets"
    /\ UNCHANGED <<tax_data, result, arg, ret>>

GetAssetsForYear ==
    /\ \E year \in AssetYears :
         /\ arg' = year
         /\ result' = get_assets_for_year(assets, year)
         /\ ret' = get_total_depreciation_for_year(assets, year)
    /\ pc' = "listed"
    /\ UNCHANGED <<tax_data, assets>>

NextAssets == AddAsset \/ UpdateAsset \/ DeleteAsset \/ GetAssetsForYear

SpecAssets == InitAssets /\ [][NextAssets]_vars

----------------------------------------------------------------------------
(* Claims                                                                  *)

Done == pc = "done"

\* The transactions of the input that take part in the aggregation.
TaxRelated(txs) == SelectSeq(txs, LAMBDA t : t.tax_related)

\* C1: in every result of calculate_all_taxes, taxable_income equals
\* max(0, total_income - total_deductions) of the same result.
C1_TaxableIncome ==
    Done =>
        result.taxable_income =
            (IF MLe(result.total_deductions, result.total_income)
             THEN MSub(result.total_income, result.total_deductions)
             ELSE M(0))

\* C1 witness: a result whose deductions exceed a positive income, so that
\* the clamp acts.
C1_Witness ==
    /\ Done
    /\ MLt(M(0), result.total_income)
    /\ MLt(result.total_income, result.total_deductions)
    /\ result.taxable_income = M(0)

TaxFigures(r) ==
    <<r.total_income, r.total_deductions, r.taxable_income, r.income_tax,
      r.reconstruction_tax, r.resident_tax, r.business_tax,
      r.consumption_tax, r.total_tax>>

\* The pool's transactions with tax_related switched off.
ToggledOff == {[TxPool[i] EXCEPT !.tax_related = FALSE] : i \in DOMAIN TxPool}

WithTransaction(data, t) ==
    [data EXCEPT !.transactions =
        Append(@, [id |-> Len(@) + 1,
                   transaction_type |-> t.transaction_type,
                   category |-> t.category, amount |-> t.amount,
                   description |-> t.description,
                   tax_related |-> t.tax_related])]

\* C2: adding a transaction with tax_related = false to the input changes
\* none of total_income, total_deductions, taxable_income and the tax
\* figures of the result.
C2_ToggledOffIgnored ==
    Done =>
        \A t \in ToggledOff :
            TaxFigures(calculate_all_taxes(WithTransaction(tax_data, t)))
                = TaxFigures(result)

\* C2 witness: a result with a positive total tax for an input that holds a
\* transaction with tax_related = false next to a tax-related one.
C2_Witness ==
    /\ Done
    /\ MLt(M(0), result.total_tax)
    /\ \E i \in DOMAIN tax_data.transactions :
           ~tax_data.transactions[i].tax_related
    /\ \E i \in DOMAIN tax_data.transactions :
           tax_data.transactions[i].tax_related

\* C3 (as claimed): withholding_tax and prepaid_tax are the totals of the
\* tax-related Expense transactions whose description contains the marker.
C3_TaxRelatedMarkedOnly ==
    Done =>
        /\ result.withholding_tax =
               M(marked_expense_total(TaxRelated(tax_data.transactions),
                                      WithholdingMarker))
        /\ result.prepaid_tax =
               M(marked_expense_total(TaxRelated(tax_data.transactions),
                                      PrepaymentMarker))

\* C4: with home_loan_deduction >= 0 the reported income tax lies between 0
\* and the income tax computed from the taxable income.
C4_CreditBounds ==
    (Done /\ tax_data.deductions.home_loan_deduction >= 0) =>
        /\ MLe(M(0), result.income_tax)
        /\ MLe(result.income_tax, calculate_income_tax(result.taxable_income))

\* C4 witness: the credit exceeds a positive income tax and the reported
\* income tax is zero.
C4_Witness ==
    /\ Done
    /\ MLt(M(0), calculate_income_tax(result.taxable_income))
    /\ MLt(calculate_income_tax(result.taxable_income),
           M(tax_data.deductions.home_loan_deduction))
    /\ result.income_tax = M(0)

\* C5: with paid = withholding_tax + prepaid_tax, tax_due = total_tax - paid
\* and refund_amount = 0 when total_tax > paid, otherwise tax_due = 0 and
\* refund_amount = paid - total_tax; at most one of the two is nonzero and
\* both are zero exactly when total_tax = paid.
C5_DueOrRefund ==
    Done =>
        LET paid == MAdd(result.withholding_tax, result.prepaid_tax)
        IN  /\ MLt(paid, result.total_tax) =>
                   /\ result.tax_due = MSub(result.total_tax, paid)
                   /\ result.refund_amount = M(0)
            /\ MLe(result.total_tax, paid) =>
                   /\ result.tax_due = M(0)
                   /\ result.refund_amount = MSub(paid, result.total_tax)
            /\ result.tax_due = M(0) \/ result.refund_amount = M(0)
            /\ (result.tax_due = M(0) /\ result.refund_amount = M(0))
                   <=> result.total_tax = paid

\* C5 witness: one marked withholding expense of 200,000 against a total
\* tax of 150,000 gives tax_due 0 and refund_amount 50,000.
C5_Witness ==
    /\ Done
    /\ result.withholding_tax = M(200000)
    /\ result.prepaid_tax = M(0)
    /\ result.total_tax = M(150000)
    /\ result.tax_due = M(0)
    /\ result.refund_amount = M(50000)

\* C6: estimated_quarterly_tax has four equal entries, each a quarter of
\* the reported income tax (nothing is rounded or moved between quarters),
\* so the entries sum to the income tax within 3 yen.
C6_Quarters ==
    Done =>
        LET q == result.estimated_quarterly_tax
            total == MAdd(MAdd(q[1], q[2]), MAdd(q[3], q[4]))
        IN  /\ Len(q) = 4
            /\ \A i \in 1..4 : q[i] = q[1]
            /\ total = result.income_tax
            /\ MLe(MSub(result.income_tax, M(3)), total)
            /\ MLe(total, MAdd(result.income_tax, M(3)))

\* C6 witness: an income tax that is not a multiple of 4, so each quarter
\* carries a fraction of a yen.
C6_Witness ==
    /\ Done
    /\ result.income_tax.w % 4 # 0
    /\ result.estimated_quarterly_tax[1].f # 0

\* The tax-related transactions are all Salary income.
SalaryOnly(data) ==
    LET rel == TaxRelated(data.transactions)
    IN  /\ rel # <<>>
        /\ \A i \in DOMAIN rel :
               rel[i].transaction_type = INCOME /\ rel[i].category = "Salary"

\* Only the basic deduction is elected; every other deduction input is
\* zero and there are no dependents.
BasicDeductionOnly(data) ==
    /\ data.deductions = DefaultDeductions
    /\ data.personal_info.dependents = <<>>

\* C7: a return whose tax-related transactions are Salary income totalling
\* s, 1,800,000 < s <= 3,600,000, with only the basic deduction, has
\* salary deduction s*0.3 + 636,000, total_income s minus that, basic
\* deduction 480,000, taxable_income max(0, total_income - 480,000) and
\* income tax floor(taxable_income * 0.05); s = 3,000,000 gives
\* 1,536,000 / 1,464,000 / 984,000 / 49,200.
C7_SalaryScenario ==
    LET s == SumAmount(TaxRelated(tax_data.transactions))
        deduction == MAdd(MMulRate(M(s), 3, 10), M(636000))
        net == MSub(M(s), deduction)
        taxable == IF MLe(M(480000), net) THEN MSub(net, M(480000)) ELSE M(0)
    IN  (/\ Done
         /\ SalaryOnly(tax_data)
         /\ BasicDeductionOnly(tax_data)
         /\ 1800000 < s /\ s <= 3600000) =>
            /\ MMulExact(M(s), 3, 10)
            /\ calculate_salary_deduction(s) = deduction
            /\ result.income_breakdown.salary_income = net
            /\ result.total_income = net
            /\ result.deduction_breakdown.basic_deduction = M(480000)
            /\ result.total_deductions = M(480000)
            /\ result.taxable_income = taxable
            /\ MLe(taxable, M(1950000))
            /\ result.income_tax = MFloor(MMulRate(taxable, 5, 100))
            /\ s = 3000000 =>
                   /\ deduction = M(1536000)
                   /\ result.total_income = M(1464000)
                   /\ result.taxable_income = M(984000)
                   /\ result.income_tax = M(49200)

\* C7 witness: the single Salary transaction of 3,000,000 with the basic
\* deduction only, taxed 49,200.
C7_Witness ==
    /\ Done
    /\ SalaryOnly(tax_data)
    /\ BasicDeductionOnly(tax_data)
    /\ Len(tax_data.transactions) = 1
    /\ tax_data.transactions[1].amount = 3000000
    /\ result.income_tax = M(49200)

\* C8 (as claimed): business income is max(0, revenue - E - blue_bonus),
\* E counting every expense category other than Medical and Donation
\* exactly once; revenue 5,000,000 with an Outsourcing expense of
\* 1,000,000 under Blue filing gives 3,350,000 and business_tax 22,500.
C8_ExpensesCountedOnce ==
    LET income == get_income_by_category(tax_data.transactions)
        expense == get_expense_by_category(tax_data.transactions)
        E == SumOver(expense, ExpenseCategory \ {"Medical", "Donation"})
        blue_bonus ==
            IF tax_data.tax_settings.filing_type = Blue THEN 650000 ELSE 0
        net == income["Business"] - E - blue_bonus
    IN  (Done /\ "Business" \in DOMAIN income) =>
            /\ result.income_breakdown.business_income =
                   M(IF net > 0 THEN net ELSE 0)
            /\ (/\ income["Business"] = 5000000
                /\ expense = [c \in {"Outsourcing"} |-> 1000000]
                /\ blue_bonus = 650000) =>
                   /\ result.income_breakdown.business_income = M(3350000)
                   /\ result.business_tax = M(22500)

\* floor(v * percent / 100 - subtraction)
BracketTax(v, percent, subtraction) ==
    MSub(MFloor(MMulRate(v, percent, 100)), M(subtraction))

\* C9: calculate_income_tax(v) is 0 for v <= 0 and otherwise
\* floor(v*rate - subtraction) of the first national bracket whose upper
\* threshold is >= v, the threshold included; 1,950,000 is taxed 97,500.
C9_IncomeTaxBrackets ==
    Done =>
        /\ ret =
             (IF MLe(arg, M(0)) THEN M(0)
              ELSE IF MLe(arg, M(1950000)) THEN BracketTax(arg, 5, 0)
              ELSE IF MLe(arg, M(3300000)) THEN BracketTax(arg, 10, 97500)
              ELSE IF MLe(arg, M(6950000)) THEN BracketTax(arg, 20, 427500)
              ELSE IF MLe(arg, M(9000000)) THEN BracketTax(arg, 23, 636000)
              ELSE IF MLe(arg, M(18000000)) THEN BracketTax(arg, 33, 1536000)
              ELSE IF MLe(arg, M(40000000)) THEN BracketTax(arg, 40, 2796000)
              ELSE BracketTax(arg, 45, 4796000))
        /\ arg = M(1950000) => ret = M(97500)

\* C9 witness: 1,950,000, the upper bound of the 5% bracket, taxed 97,500.
C9_Witness ==
    /\ Done
    /\ arg = M(1950000)
    /\ ret = M(97500)

WithHomeLoan(data, h) == [data EXCEPT !.deductions.home_loan_deduction = h]

\* C10: inputs that differ only in home_loan_deduction have the same
\* reconstruction_tax (floor of 2.1% of the income tax before the credit),
\* resident_tax, business_tax and consumption_tax, and total_tax is the
\* sum of the reported income tax and these four.
C10_CreditOnlyOnIncomeTax ==
    Done =>
        /\ \A h \in HomeLoanInputs :
               LET other == calculate_all_taxes(WithHomeLoan(tax_data, h))
               IN  /\ other.reconstruction_tax = result.reconstruction_tax
                   /\ other.resident_tax = result.resident_tax
                   /\ other.business_tax = result.business_tax
                   /\ other.consumption_tax = result.consumption_tax
        /\ result.reconstruction_tax =
               MFloor(MMulRate(calculate_income_tax(result.taxable_income),
                               21, 1000))
        /\ result.total_tax =
               MAdd(MAdd(result.income_tax, result.reconstruction_tax),
                    MAdd(result.resident_tax,
                         MAdd(result.business_tax, result.consumption_tax)))

\* C10 witness: a credit that lowers a positive income tax while the
\* surtax stays positive.
C10_Witness ==
    /\ Done
    /\ tax_data.deductions.home_loan_deduction > 0
    /\ MLt(result.income_tax, calculate_income_tax(result.taxable_income))
    /\ MLt(M(0), result.reconstruction_tax)
    /\ MLt(M(0), result.business_tax)

ViolatesPrecondition(data) ==
    \E i \in DOMAIN data.transactions :
        LET t == data.transactions[i]
        IN  \/ t.amount < 0
            \/ /\ t.transaction_type = INCOME
               /\ t.tax_related
               /\ t.category \notin IncomeCategory

\* C12: on an input that violates a precondition, calculate_all_taxes ends
\* by raising an error and returns no result.
C12_FailFast ==
    (pc # "inputs" /\ ViolatesPrecondition(tax_data)) =>
        (pc = "raised" /\ result = NoResult)

\* C13: right after calculate_taxes, tax_data.calculation_result holds every
\* field of the result the orchestrator has just returned, with the same
\* value (home_loan_deduction_applied and the two breakdowns included).
C13_ResultStored ==
    pc \in {"done", "error"} =>
        \A k \in DOMAIN result :
            /\ k \in DOMAIN tax_data.calculation_result
            /\ tax_data.calculation_result[k] = result[k]

\* C14: total_deductions is the sum of the basic, spouse, dependent,
\* social-insurance, life-insurance, earthquake-insurance, donation and
\* medical deductions; home_loan_deduction is reported as supplied, and a
\* return that differs only in home_loan_deduction has the same
\* total_deductions and taxable_income.
C14_TotalDeductions ==
    Done =>
        LET b == result.deduction_breakdown
        IN  /\ b.total_deductions =
                   MAdd(b.medical_deduction, MAdd(b.donation_deduction,
                   MAdd(b.earthquake_insurance_deduction,
                   MAdd(b.life_insurance_deduction,
                   MAdd(b.social_insurance_deduction,
                   MAdd(b.dependent_deduction,
                   MAdd(b.spouse_deduction, b.basic_deduction)))))))
            /\ result.total_deductions = b.total_deductions
            /\ b.home_loan_deduction =
                   M(tax_data.deductions.home_loan_deduction)
            /\ \A h \in HomeLoanInputs :
                 \A other \in {calculate_all_taxes(WithHomeLoan(tax_data, h))} :
                   /\ other.deduction_breakdown.home_loan_deduction = M(h)
                   /\ other.deduction_breakdown.total_deductions =
                          b.total_deductions
                   /\ other.total_deductions = result.total_deductions
                   /\ other.taxable_income = result.taxable_income

C14_Witness ==
    /\ Done
    /\ tax_data.deductions.home_loan_deduction = 500000
    /\ result.deduction_breakdown.home_loan_deduction = M(500000)
    /\ \A k \in {"basic_deduction", "spouse_deduction", "dependent_deduction",
                  "social_insurance_deduction", "life_insurance_deduction",
                  "earthquake_insurance_deduction", "donation_deduction",
                  "medical_deduction"} :
           MLt(M(0), result.deduction_breakdown[k])
    /\ MLt(M(0), result.taxable_income)

\* C15: the spouse deduction is 0 when it is not elected, when
\* spouse_income > 480,000 or when total_income > 10,000,000; otherwise
\* 380,000 up to a total income of 9,000,000, 260,000 up to 9,500,000 and
\* 130,000 up to 10,000,000.
C15_SpouseDeduction ==
    Done =>
        LET sd == result.deduction_breakdown.spouse_deduction
            ti == result.total_income
            si == tax_data.personal_info.spouse_income
        IN  /\ sd = IF \/ ~tax_data.deductions.spouse_deduction
                        \/ si > 480000
                        \/ MLt(M(10000000), ti)
                     THEN M(0)
                     ELSE IF MLe(ti, M(9000000)) THEN M(380000)
                     ELSE IF MLe(ti, M(9500000)) THEN M(260000)
                     ELSE M(130000)
            /\ sd \in {M(0), M(130000), M(260000), M(380000)}

C15_Witness ==
    /\ Done
    /\ tax_data.deductions.spouse_deduction
    /\ tax_data.personal_info.spouse_income = 500000
    /\ result.total_income = M(5000000)
    /\ result.deduction_breakdown.spouse_deduction = M(0)

\* 580,000 for each age >= 70, 630,000 for each age in 19..22, 380,000
\* for each other age.
DependentAmount(ages) ==
    LET old == {i \in DOMAIN ages : ages[i] >= 70}
        student == {i \in DOMAIN ages : ages[i] >= 19 /\ ages[i] <= 22}
    IN  580000 * Cardinality(old) + 630000 * Cardinality(student)
        + 380000 * Cardinality(DOMAIN ages \ (old \cup student))

\* C16: the dependent deduction is the sum of the per-age amounts over the
\* dependents list, and total_deductions exceeds that of the same return
\* without dependents by exactly this sum, whatever the election flags.
C16_DependentDeduction ==
    Done =>
        LET dd == result.deduction_breakdown.dependent_deduction
        IN  /\ dd = M(DependentAmount(tax_data.personal_info.dependents))
            /\ \A none \in {calculate_all_taxes(
                     [tax_data EXCEPT !.personal_info.dependents = <<>>])} :
                   result.total_deductions = MAdd(none.total_deductions, dd)

C16_Witness ==
    /\ Done
    /\ tax_data.personal_info.dependents = <<20>>
    /\ ~tax_data.deductions.basic_deduction
    /\ ~tax_data.deductions.spouse_deduction
    /\ result.deduction_breakdown.dependent_deduction = M(630000)
    /\ result.total_deductions = M(630000)

\* An amount in units of 1/Scale yen (for amounts below 5,000,000).
Units(a) == a.w * Scale + a.f

\* C17: the life-insurance deduction of a premium p is p up to 20,000,
\* p/2 + 10,000 up to 40,000, p/4 + 20,000 up to 80,000 and 40,000 above;
\* it exceeds neither 40,000 nor p, and no larger premium has a smaller
\* deduction.
C17_LifeInsurance ==
    Done =>
        LET p == tax_data.deductions.life_insurance_premium
            d == result.deduction_breakdown.life_insurance_deduction
        IN  /\ 4 * Units(d) =
                   Scale * (IF p <= 20000 THEN 4 * p
                            ELSE IF p <= 40000 THEN 2 * p + 40000
                            ELSE IF p <= 80000 THEN p + 80000
                            ELSE 160000)
            /\ MLe(d, M(40000))
            /\ MLe(d, M(p))
            /\ \A q \in LifePremiums :
                   p <= q => MLe(d, calculate_life_insurance_deduction(q))

C17_Witness ==
    /\ Done
    /\ tax_data.deductions.life_insurance_premium = 60000
    /\ result.deduction_breakdown.life_insurance_deduction = M(35000)

\* C18: the medical deduction is max(0, medical_expense - min(5 % of
\* total_income, 100,000)), total_income being the income aggregation's
\* total for the same return: from 2,000,000 on the threshold is 100,000,
\* below it twenty times the threshold is the total income.  The deduction
\* lies between 0 and medical_expense and is the whole expense when the
\* total income is 0.
C18_MedicalDeduction ==
    Done =>
        LET me == tax_data.deductions.medical_expense
            md == result.deduction_breakdown.medical_deduction
        IN  \A ti \in {calculate_total_income(tax_data).total_income} :
              /\ result.total_income = ti
              /\ IsMoney(md)
              /\ IF MLe(M(2000000), ti)
                 THEN md = M(IF me > 100000 THEN me - 100000 ELSE 0)
                 ELSE IF 20 * me * Scale >= Units(ti)
                      THEN 20 * (me * Scale - Units(md)) = Units(ti)
                      ELSE md = M(0)
              /\ MLe(M(0), md)
              /\ MLe(md, M(me))
              /\ (ti = M(0) => md = M(me))

C18_Witness ==
    /\ Done
    /\ tax_data.deductions.medical_expense = 50000
    /\ result.total_income = MNorm(694002, 40)
    /\ result.deduction_breakdown.medical_deduction = MNorm(15299, 358)

\* The total of the tax-related Business income transactions.
BusinessRevenue(txs) ==
    SumAmount(SelectSeq(txs, LAMBDA t :
        /\ t.transaction_type = INCOME
        /\ t.category = "Business"
        /\ t.tax_related))

\* C19: with b the business income of the result, business_tax is 0 for
\* b <= 2,900,000, floor(5 % of x) for an excess x = b - 2,900,000 of at
\* most 4,000,000 and floor(200,000 + 4.8 % of (x - 4,000,000)) above;
\* no larger business income has a smaller tax.
C19_BusinessTax ==
    Done =>
        LET b == result.income_breakdown.business_income
            x == b.w - 2900000
        IN  /\ b.f = 0
            /\ result.business_tax =
                   IF b.w <= 2900000 THEN M(0)
                   ELSE IF x <= 4000000 THEN M(x \div 20)
                   ELSE M((200000 * 1000 + (x - 4000000) * 48) \div 1000)
            /\ \A r \in BusinessRevenues :
                   b.w <= r =>
                       MLe(result.business_tax, calculate_business_tax(M(r)))

C19_Witness ==
    /\ Done
    /\ tax_data.tax_settings.filing_type = Blue
    /\ BusinessRevenue(tax_data.transactions) = 12000000
    /\ result.income_breakdown.business_income = M(11350000)
    /\ result.business_tax = M(413600)

\* C20: with R the total of the tax-related Business income transactions,
\* consumption_tax is 0 for R <= 10,000,000 and floor(R / 10) above; it
\* is the same under the other filing type and without the expenses.
C20_ConsumptionTax ==
    Done =>
        /\ \A R \in {BusinessRevenue(tax_data.transactions)} :
               result.consumption_tax =
                   IF R <= 10000000 THEN M(0) ELSE M(R \div 10)
        /\ \A ft \in FilingTypes :
             \A other \in {calculate_all_taxes(
                   [tax_data EXCEPT
                        !.tax_settings.filing_type = ft,
                        !.transactions =
                            get_transactions_by_type(@, INCOME)])} :
               other.consumption_tax = result.consumption_tax

C20_Witness ==
    /\ Done
    /\ BusinessRevenue(tax_data.transactions) = 10000009
    /\ tax_data.tax_settings.filing_type = Blue
    /\ calculate_total_expense(tax_data.transactions) > 0
    /\ MLt(result.income_breakdown.business_income, M(10000000))
    /\ result.consumption_tax = M(1000000)

\* C21: the list of a new TaxReturnData is empty; in every list reached by
\* adding (with an id the list does not hold), editing and deleting, the
\* ids are pairwise distinct; an addition adds exactly the new id, an edit
\* keeps the ids and the length, a deletion takes exactly one id away, and
\* remove_transaction of an id the list does not hold changes nothing.
C21_TransactionIds ==
    /\ tax_data.transactions = <<>>
    /\ [][LET txs == tax_data.transactions
              after == tax_data'.transactions
          IN  /\ Cardinality(Ids(after)) = Len(after)
              /\ AddTransaction =>
                     /\ Len(after) = Len(txs) + 1
                     /\ Ids(txs) \subseteq Ids(after)
              /\ EditTransaction =>
                     /\ Len(after) = Len(txs)
                     /\ Ids(after) = Ids(txs)
              /\ DeleteTransaction =>
                     /\ Len(after) = Len(txs) - 1
                     /\ Ids(after) \subseteq Ids(txs)
              /\ \A id \in TransactionIds \ Ids(after) :
                     remove_transaction(tax_data', id) = tax_data']_vars

C21_Witness ==
    /\ Len(tax_data.transactions) = MaxTx
    /\ tax_data.transactions[1].id = MaxTx + 1
    /\ tax_data.transactions[MaxTx].id = 1
    /\ tax_data.transactions[MaxTx].category = "Outsourcing"

\* The salary of a return with a single Salary transaction.
Salary == tax_data.transactions[1].amount

\* C22: the salary deduction is 2,955,000 for every salary above 8,500,000
\* and at most 2,955,000 for every salary.
C22_SalaryDeductionCeiling ==
    Done =>
        /\ Salary > 8500000 =>
               calculate_salary_deduction(Salary) = M(2955000)
        /\ MLe(calculate_salary_deduction(Salary), M(2955000))
        /\ MLe(MSub(M(Salary), result.income_breakdown.salary_income),
               M(2955000))

\* calculate_total_income lines 53-54 for a salary.
NetSalary(salary) ==
    MMax(M(0), MSub(M(salary), calculate_salary_deduction(salary)))

\* C25: the salary income of the result is no larger than the net salary
\* income of any larger salary, and a salary of 650,000 gives 0.
C25_NetSalaryMonotone ==
    Done =>
        /\ result.income_breakdown.salary_income = NetSalary(Salary)
        /\ \A b \in SalaryInputs :
               Salary <= b =>
                   MLe(result.income_breakdown.salary_income, NetSalary(b))
        /\ Salary = 650000 => result.income_breakdown.salary_income = M(0)

\* C23: taxable_income, income_tax, reconstruction_tax, resident_tax,
\* business_tax, consumption_tax and total_tax of every result are whole
\* numbers of yen (the amounts of the input are).
C23_WholeUnits ==
    Done =>
        \A k \in {"taxable_income", "income_tax", "reconstruction_tax",
                  "resident_tax", "business_tax", "consumption_tax",
                  "total_tax"} :
            result[k].f = 0

\* The income tax before the home-loan credit, as lines 271-273 compute it.
PreCreditIncomeTax ==
    calculate_income_tax(
        taxable_income_of(result.total_income, result.total_deductions))

\* C24: home_loan_deduction_applied is the smaller of the home-loan input
\* and the income tax before the credit, and the reported income tax plus
\* home_loan_deduction_applied is the income tax before the credit.
C24_CreditApplied ==
    Done =>
        /\ result.home_loan_deduction_applied =
               MMin(M(tax_data.deductions.home_loan_deduction),
                    PreCreditIncomeTax)
        /\ MLe(result.home_loan_deduction_applied, PreCreditIncomeTax)
        /\ MAdd(result.income_tax, result.home_loan_deduction_applied) =
               PreCreditIncomeTax

\* C26: on a return with Business and Rental revenue, what the expenses
\* and the blue bonus take off the two revenues together is at most the
\* total of the tax-related expenses plus the blue bonus.
C26_NoDoubleDeduction ==
    LET income == get_income_by_category(tax_data.transactions)
        blue_bonus ==
            IF tax_data.tax_settings.filing_type = Blue THEN 650000 ELSE 0
    IN  (Done /\ "Business" \in DOMAIN income /\ "Rental" \in DOMAIN income) =>
            (income["Business"] - result.income_breakdown.business_income.w)
            + (income["Rental"] - result.income_breakdown.rental_income.w)
                <= calculate_total_expense(tax_data.transactions) + blue_bonus

\* C27: withholding_tax + prepaid_tax is at most the total of the Expense
\* transactions whose description contains at least one of the two
\* markers.
C27_PaidCountedOnce ==
    Done =>
        MLe(MAdd(result.withholding_tax, result.prepaid_tax),
            M(SumAmount(SelectSeq(tax_data.transactions, LAMBDA t :
                /\ t.transaction_type = EXPENSE
                /\ t.description \cap {WithholdingMarker, PrepaymentMarker}
                       # {}))))

\* C28: the income tax of a taxable income is not negative, not larger
\* than the income tax of any larger taxable income and, for a taxable
\* income that is not negative, not larger than the taxable income.
C28_IncomeTaxMonotone ==
    Done =>
        /\ MLe(M(0), ret)
        /\ \A b \in TaxableInputs :
               MLe(arg, b) => MLe(ret, calculate_income_tax(b))
        /\ MLe(M(0), arg) => MLe(ret, arg)

C28_Witness ==
    /\ Done
    /\ arg = M(1950001)
    /\ ret = M(97500)

\* C29: after any sequence of add_asset and delete_asset from an empty
\* list, the assets have pairwise distinct ids, so that update_asset(id)
\* and delete_asset(id) affect exactly one asset: deleting an id of the
\* list removes one asset, and updating it changes the asset of that id
\* and no asset of another name.
C29_AssetIdsDistinct ==
    /\ Cardinality(AssetIds(assets)) = Len(assets)
    /\ \A asset_id \in AssetIds(assets) :
         Len(delete_asset(assets, asset_id)) = Len(assets) - 1

\* The years in which get_assets_for_year lists the asset.
ListedYears(asset) ==
    {year \in (asset.purchase_date.year)..(asset.purchase_date.year + asset.useful_life) :
        listed_in_year(asset, year)}

\* Sum of depreciation_amount of the asset over a set of years.
RECURSIVE DepreciationOver(_, _)
DepreciationOver(asset, years) ==
    IF years = {} THEN M(0)
    ELSE LET year == CHOOSE y \in years : TRUE
         IN  MAdd(calculate_depreciation(asset, year).depreciation_amount,
                  DepreciationOver(asset, years \ {year}))

\* C30: straight-line depreciation never writes off more than the
\* purchase price: for every asset a year lists, the depreciation_amount
\* summed over all the years that list the asset is at most
\* purchase_price, total_depreciation is the sum of depreciation_amount
\* from the purchase year through the listed year, and current_value is
\* purchase_price - total_depreciation and is not negative.
C30_DepreciationWithinPrice ==
    pc = "listed" =>
        \A k \in DOMAIN result :
            LET asset == result[k]
                price == M(asset.purchase_price)
            IN  /\ MLe(DepreciationOver(asset, ListedYears(asset)), price)
                /\ asset.total_depreciation =
                       DepreciationOver(asset, (asset.purchase_date.year)..arg)
                /\ asset.current_value = MSub(price, asset.total_depreciation)
                /\ MLe(M(0), asset.current_value)

============================================================================
